---- MODULE Spec2Model ----
(***************************************************************************)
(* IRISC on-board software: the dual-axis PID motor controller, its gain   *)
(* store and the mode registry (tracking/target_selecting.c), and the      *)
(* gyroscope poller.                                                       *)
(*                                                                         *)
(* Real-valued quantities are carried as exact fixed-point integers:       *)
(*   positions and errors     in 1/PosScale degree                         *)
(*   gains kp, ki, kd         in 1/GainScale                               *)
(*   integral                 in 1/(PosScale*DtInv) degree*second          *)
(*   derivative               in 1/PosScale degree per second              *)
(*   pid_output, max_motor_ang, max_change_rate                            *)
(*                            in 1/(PosScale*DtInv*GainScale) degree       *)
(* so that every product and sum of the control law is exact.  The gain    *)
(* values offered to the telecommands divide max_motor_ang, which keeps    *)
(* the anti-windup quotient max_motor_ang / ki exact as well.              *)
(***************************************************************************)
EXTENDS Integers, Sequences, FiniteSets, TLC

\* ------------------------------------------------------------------ bounds
\* control steps the controller thread makes next to the telecommand threads
MaxSteps == 1
\* control steps of the controller running alone
MaxCtlSteps == 10
\* telecommand / external calls made in one behaviour
MaxCalls == 2

\* ------------------------------------------------------- program constants
\* fixed-point denominators of the double fields
PosScale == 100
GainScale == 10000
\* 1 / stabilization_timestep (CONTROL_SYS_WAIT of 10 ms)
DtInv == 100
\* STEPS_PER_REVOLUTION * MICRO_STEP_FACTOR * GEARBOX_RATIO / 360
StepPerDeg == 100
\* max_motor_ang = 35 / step_per_deg, max_change_rate = 5 / step_per_deg
MaxMotorSteps == 35
MaxChangeSteps == 5
\* the deadband 0.02, in 1/PosScale degree
Deadband == 2

OutPerDeg == PosScale * DtInv * GainScale

Axis == {"az", "alt"}
NoThread == "none"
Ctl == "ctl"
Cmds == {"tc1", "tc2"}
Threads == {Ctl} \cup Cmds

Gain(p, i, d) == [kp |-> p, ki |-> i, kd |-> d]

\* static initialisers of the stored gain sets
StabDefault == [az |-> Gain(673, 500, 152), alt |-> Gain(673, 500, 152)]
TrackDefault == [az |-> Gain(1000, 100, 10000), alt |-> Gain(10000, 2000, 0)]

\* new_p, new_i, new_d offered to the telecommands: (1, 700, 0)
NewGains == {Gain(10000, 7000000, 0)}

\* cur_att (az, alt) handed to pid_update, and the angles get_tracking_angles
\* returns, in 1/PosScale degree
AttChoices == {[az |-> 0, alt |-> 0]}
\* With the controller running alone the azimuth target drifts by one unit a
\* step from the previous target tgt, and the altitude target jumps.
TargetChoices(tgt) ==
    {[az |-> tgt["az"] + 1, alt |-> 40],
     [az |-> tgt["az"] - 1, alt |-> 1],
     [az |-> tgt["az"], alt |-> -40]}
\* the angles offered next to the telecommand threads
NextTargets(tgt) == {[az |-> 10, alt |-> 10]}

ZeroVars ==
    [current_position |-> 0, target_position |-> 0, position_error |-> 0,
     derivative |-> 0, integral |-> 0, pid_output |-> 0]

VARIABLES
    current_pid_values, stab_pid_values, track_pid_values,
    prev_control_vars, current_control_vars,
    pid_values_mutex, control_vars_mutex,
    step_per_deg, max_motor_ang, max_change_rate,
    threshold, motor_out, first_iteration,
    pc, op, ret, nSteps, nCalls, clean

gains == <<current_pid_values, stab_pid_values, track_pid_values>>
cvs == <<prev_control_vars, current_control_vars>>
mutexes == <<pid_values_mutex, control_vars_mutex>>
conv == <<step_per_deg, max_motor_ang, max_change_rate>>
outs == <<threshold, motor_out, first_iteration>>
cmdv == <<op, ret, nCalls>>
pidv == <<gains, cvs, mutexes, conv, outs, pc, cmdv, nSteps, clean>>

\* the mode registry, the gyroscope poller and the initialisation calls
VARIABLES
    mode, mutex_mode,
    spc, ch, arg, nModeCalls, lastStored, overlapped,
    mutex_cond_gyro, wokenBy, nStarts, nCycles, resetHeld, resetCycles,
    data, bytes_available, ft_ret, rate, gyro, reading, reading0, lastGood,
    bpc, pid_log, gyro_log, trig, fd, pid_ret, gyro_ret,
    wake_time, wake0, nth, GYRO_SAMPLE_TIME

modev == <<mode, mutex_mode>>
callv == <<ch, arg, nModeCalls, lastStored, overlapped>>
thrv == <<mutex_cond_gyro, wokenBy, nStarts, nCycles, resetHeld, resetCycles>>
cyclev == <<data, bytes_available, ft_ret, rate, gyro, reading, reading0, lastGood>>
bootv == <<bpc, pid_log, gyro_log, trig, fd, pid_ret, gyro_ret>>
wakev == <<wake_time, wake0, nth, GYRO_SAMPLE_TIME>>
sensv == <<modev, spc, callv, thrv, cyclev, bootv, wakev>>
vars == <<pidv, sensv>>

\* ------------------------------------------- mode registry and gyroscope
\* enum mode_t: RESET, normal and a further mission phase
ModeValues == {"RESET", "normal", "sleep"}

Gyro == "gyro"
ModeCallers == {"mc1", "mc2"}
SensThreads == {Gyro} \cup ModeCallers

\* the datagram: DATAGRAM_IDENTIFIER 0x94, DATAGRAM_SIZE bytes, ended by CR LF
DATAGRAM_IDENTIFIER == 148
DATAGRAM_SIZE == 27
CR == 13
LF == 10
\* rates are carried in 1/RateScale degree per second, the temperature in
\* 1/TempScale degree
RateScale == 16384
TempScale == 256

Bytes == 0 .. 255
FtStatus == {"FT_OK", "FT_IO_ERROR"}

\* a datagram with the rate samples x, y, z (three bytes each, most
\* significant first), the rate status byte, the temperature t (two bytes),
\* its status byte and the two terminator bytes
Datagram(x, y, z, status, t, tstatus, cr, lf) ==
    [i \in 0 .. DATAGRAM_SIZE - 1 |->
        CASE i = 0 -> DATAGRAM_IDENTIFIER
          [] i \in 1 .. 3 -> x[i]
          [] i \in 4 .. 6 -> y[i - 3]
          [] i \in 7 .. 9 -> z[i - 6]
          [] i = 10 -> status
          [] i \in 11 .. 12 -> t[i - 10]
          [] i = 17 -> tstatus
          [] i = DATAGRAM_SIZE - 2 -> cr
          [] i = DATAGRAM_SIZE - 1 -> lf
          [] OTHER -> 0]

\* the datagrams the transport delivers: two sound ones, one of them with a
\* bad temperature status, one with a wrong CR, one with a wrong LF, and two
\* with a bad rate status
Datagrams ==
    {Datagram(<<0, 64, 0>>, <<255, 255, 255>>, <<0, 0, 0>>, 0, <<25, 128>>, 0, CR, LF),
     Datagram(<<128, 0, 0>>, <<0, 0, 1>>, <<127, 255, 255>>, 0, <<255, 0>>, 4, CR, LF),
     Datagram(<<0, 0, 2>>, <<0, 0, 2>>, <<0, 0, 2>>, 0, <<1, 0>>, 0, 0, LF),
     Datagram(<<0, 0, 3>>, <<0, 0, 3>>, <<0, 0, 3>>, 0, <<2, 0>>, 0, CR, 0),
     Datagram(<<0, 0, 4>>, <<0, 0, 4>>, <<0, 0, 4>>, 1, <<3, 0>>, 0, CR, LF),
     Datagram(<<0, 0, 5>>, <<0, 0, 5>>, <<0, 0, 5>>, 64, <<4, 0>>, 2, CR, LF)}

\* the single sound datagram delivered next to the mode callers
OneDatagram ==
    {Datagram(<<0, 64, 0>>, <<255, 255, 255>>, <<0, 0, 0>>, 0, <<25, 128>>, 0, CR, LF)}

\* the shared reading of the sensors component: gyro_t and the temperature
Reading(x, y, z, temp, ood) ==
    [x |-> x, y |-> y, z |-> z, temp |-> temp, out_of_date |-> ood]

\* the controller's statics before init_pid has run
PidStatic ==
    /\ stab_pid_values = StabDefault
    /\ track_pid_values = TrackDefault
    /\ current_pid_values = [a \in Axis |-> Gain(0, 0, 0)]
    /\ prev_control_vars = [a \in Axis |-> ZeroVars]
    /\ current_control_vars = [a \in Axis |-> ZeroVars]
    /\ step_per_deg = 0
    /\ max_motor_ang = 0
    /\ max_change_rate = 0
    /\ threshold = 0
    /\ motor_out = [az |-> 0, alt |-> 0]
    /\ first_iteration = 1

\* the mode registry after init_mode, no call in progress
ModeReady ==
    /\ mode = "normal"
    /\ mutex_mode = NoThread
    /\ ch = [t \in SensThreads |-> "normal"]
    /\ arg = [t \in ModeCallers |-> "normal"]
    /\ nModeCalls = 0
    /\ lastStored = "normal"
    /\ overlapped = [t \in SensThreads |-> FALSE]

\* nanoseconds in a second: the bound of tv_nsec on lines 130 and 132
NsecPerSec == 1000000000

\* values of the sample period, in nanoseconds
SamplePeriods == {10000000, 250000000}

\* struct timespec
Timespec(s, ns) == [tv_sec |-> s, tv_nsec |-> ns]

\* readings of the monotonic clock on line 124
ClockChoices ==
    {Timespec(5, 0), Timespec(5, 740000000), Timespec(5, 990000000),
     Timespec(5, 999999999)}

OneClock == {Timespec(5, 990000000)}

\* the statics of the gyroscope poller, for a sample period
GyroStatics(period) ==
    /\ GYRO_SAMPLE_TIME = period
    /\ wake_time = Timespec(0, 0)
    /\ wake0 = Timespec(0, 0)
    /\ nth = 0
    /\ mutex_cond_gyro = NoThread
    /\ wokenBy = "none"
    /\ nStarts = 0
    /\ nCycles = 0
    /\ resetHeld = FALSE
    /\ resetCycles = 0
    /\ data = [i \in 0 .. DATAGRAM_SIZE - 1 |-> 0]
    /\ bytes_available = 0
    /\ ft_ret = "FT_OK"
    /\ rate = <<0, 0, 0>>
    /\ gyro = [x |-> 0, y |-> 0, z |-> 0]
    /\ lastGood = <<0, 0, 0>>

\* the statics of the gyroscope poller
GyroStatic == GyroStatics(10000000)

\* nothing of the sensor side runs: the state the controller specifications
\* keep it in
SensReady ==
    /\ ModeReady
    /\ GyroStatic
    /\ spc = [t \in SensThreads |-> "idle"]
    /\ reading = Reading(0, 0, 0, 0, 0)
    /\ reading0 = Reading(0, 0, 0, 0, 0)
    /\ bpc = "done"
    /\ pid_log = "open"
    /\ gyro_log = "open"
    /\ trig = "HIGH"
    /\ fd = "configured"
    /\ pid_ret = "SUCCESS"
    /\ gyro_ret = "SUCCESS"

\* ------------------------------------------------------------ arithmetic
Abs(x) == IF x < 0 THEN -x ELSE x

RECURSIVE GCD(_, _)
GCD(a, b) == IF b = 0 THEN a ELSE GCD(b, a % b)

\* lround(num / den), den > 0: to nearest, halfway cases away from zero
lround(num, den) ==
    IF num >= 0 THEN (2 * num + den) \div (2 * den)
    ELSE -((2 * (-num) + den) \div (2 * den))

\* n / step_per_deg as an angle in output units
AngleOfSteps(n, spd) == n * (OutPerDeg \div spd)

\* lround(step_per_deg * pid_output)
StepsOfAngle(out, spd) ==
    LET g == GCD(spd, OutPerDeg)
    IN  lround(out * (spd \div g), OutPerDeg \div g)

\* ------------------------------------------------------------ init_pid
\* change_stabilization_mode(0), the last statement of init_pid
InitGains ==
    /\ stab_pid_values = StabDefault
    /\ track_pid_values = TrackDefault
    /\ current_pid_values = TrackDefault

init_pid ==
    /\ InitGains
    /\ prev_control_vars = [a \in Axis |-> ZeroVars]
    /\ current_control_vars = [a \in Axis |-> ZeroVars]
    /\ step_per_deg = StepPerDeg
    /\ max_motor_ang = AngleOfSteps(MaxMotorSteps, StepPerDeg)
    /\ max_change_rate = AngleOfSteps(MaxChangeSteps, StepPerDeg)
    /\ threshold = 0
    /\ motor_out = [az |-> 0, alt |-> 0]
    /\ first_iteration = 1

Init ==
    /\ init_pid
    /\ SensReady
    /\ pid_values_mutex = [a \in Axis |-> NoThread]
    /\ control_vars_mutex = [a \in Axis |-> NoThread]
    /\ pc = [t \in Threads |-> "idle"]
    /\ op = [t \in Cmds |-> [fn |-> "none", motor_id |-> 0, mode_id |-> 0, on_off |-> 0,
                                  g |-> [kp |-> 0, ki |-> 0, kd |-> 0]]]
    /\ ret = [t \in Cmds |-> 0]
    /\ nSteps = 0
    /\ nCalls = 0
    /\ clean = [t \in Cmds |-> TRUE]

\* --------------------------------------------------- motor_control_step
\* position_error, integral and derivative of one axis
ControlTerms(prev, cur) ==
    LET err == cur.target_position - cur.current_position
    IN  [cur EXCEPT !.position_error = err,
                    !.integral = prev.integral + err,
                    !.derivative = (err - prev.position_error) * DtInv]

\* kp * position_error + ki * integral + kd * derivative
PidOutput(g, cur) ==
    g.kp * cur.position_error * DtInv + g.ki * cur.integral
        + g.kd * cur.derivative * DtInv

\* ------------------------------------------------ the stages of pid_update
\* the axis whose ki the anti-windup of axis a divides by
WindupGainAxis(a) == "az"

\* anti-windup: clamp integral to +-max_motor_ang / ki (no clamp for ki = 0,
\* where the quotient is infinite)
AntiWindup(integral, ki, max_ang) ==
    IF ki = 0 THEN integral
    ELSE IF integral * ki > max_ang THEN max_ang \div ki
    ELSE IF integral * ki < -max_ang THEN -(max_ang \div ki)
    ELSE integral

\* RateLimit with the fabs forgotten: only a rising output is limited
RateLimit_rising_only(out, prev_out, max_rate) ==
    IF out - prev_out > max_rate THEN prev_out + max_rate ELSE out

\* RateLimit left out
RateLimit_off(out, prev_out, max_rate) == out

\* output change rate limit against the previous step's stored output
RateLimit(out, prev_out, max_rate) ==
    IF Abs(out - prev_out) > max_rate
    THEN IF out > prev_out THEN prev_out + max_rate ELSE prev_out - max_rate
    ELSE out

\* Saturate with the negative branch forgotten
Saturate_upper_only(out, max_ang) == IF out > max_ang THEN max_ang ELSE out

\* output saturation
Saturate(out, max_ang) ==
    IF out > max_ang THEN max_ang
    ELSE IF out < -max_ang THEN -max_ang
    ELSE out

\* SatCode without the reset on line 229: the earlier code is carried over
SatCode_carried(az_out, max_ang) ==
    IF az_out > max_ang THEN 1
    ELSE IF az_out < -max_ang THEN 2
    ELSE threshold

\* the diagnostic code threshold, set by the azimuth saturation alone
SatCode(az_out, max_ang) ==
    IF az_out > max_ang THEN 1
    ELSE IF az_out < -max_ang THEN 2
    ELSE 0

\* the pid_output handed to lround for motor_out
EmittedOutput(limited, err) == limited

\* DeadbandOutput with a threshold of 0.01 in place of 0.02
DeadbandOutput_narrow(out, err) == IF Abs(err) < Deadband - 1 THEN 0 ELSE out

\* the deadband on the stored pid_output
DeadbandOutput(out, err) == IF Abs(err) < Deadband THEN 0 ELSE out

\* ------------------------------------------------------------- mutexes
\* CanLock of a lock that excludes nobody
CanLock_always(m) == TRUE

\* pthread_mutex_lock: the caller proceeds once the mutex is free
CanLock(m) == m = NoThread

\* pthread_mutex_unlock by thread t of a mutex held by h.  Unlocking a mutex
\* the caller does not hold is undefined for the default mutex type: the
\* mutex is either released all the same or left as it was.
UnlockOutcomes(h, t) == IF h = t THEN {NoThread} ELSE {NoThread, h}

Goto(t, l) == pc' = [pc EXCEPT ![t] = l]

\* ------------------------------------------------------------ pid_update
\* the external driver loop invokes pid_update; limit bounds the invocations
pid_update_call(limit) ==
    /\ pc[Ctl] = "idle"
    /\ nSteps < limit
    /\ nSteps' = nSteps + 1
    /\ Goto(Ctl, "l156")
    /\ UNCHANGED <<sensv, gains, cvs, mutexes, conv, outs, cmdv, clean>>

\* lines 156 and 157: lock the control-variable mutex of axis a
pid_update_lock_vars(a, here, next) ==
    /\ pc[Ctl] = here
    /\ CanLock(control_vars_mutex[a])
    /\ control_vars_mutex' = [control_vars_mutex EXCEPT ![a] = Ctl]
    /\ Goto(Ctl, next)
    /\ UNCHANGED <<sensv, gains, cvs, pid_values_mutex, conv, outs, cmdv, nSteps, clean>>

\* the target angles get_tracking_angles delivered to the previous step
LastTarget == [a \in Axis |-> current_control_vars[a].target_position]

\* lines 160-185: the inputs from cur_att and get_tracking_angles, and the
\* further initialisation of the first iteration
pid_update_inputs(Targets) ==
    /\ pc[Ctl] = "l160"
    /\ \E att \in AttChoices,
          tgt \in Targets :
         current_control_vars' =
            [a \in Axis |-> [current_control_vars[a] EXCEPT
                                !.current_position = att[a],
                                !.target_position = tgt[a]]]
    /\ IF first_iteration = 1
       THEN /\ prev_control_vars' =
                 [a \in Axis |-> [prev_control_vars[a] EXCEPT !.position_error = 0]]
            /\ first_iteration' = 0
       ELSE UNCHANGED <<prev_control_vars, first_iteration>>
    /\ Goto(Ctl, "az315")
    /\ UNCHANGED <<sensv, gains, mutexes, conv, threshold, motor_out, cmdv, nSteps, clean>>

\* motor_control_step, lines 315-317
motor_control_step_terms(a, next) ==
    /\ pc[Ctl] = a \o "315"
    /\ current_control_vars' =
          [current_control_vars EXCEPT
              ![a] = ControlTerms(prev_control_vars[a], current_control_vars[a])]
    /\ Goto(Ctl, a \o "319")
    /\ UNCHANGED <<sensv, gains, prev_control_vars, mutexes, conv, outs, cmdv, nSteps, clean>>

\* motor_control_step, line 319
motor_control_step_lock(a) ==
    /\ pc[Ctl] = a \o "319"
    /\ CanLock(pid_values_mutex[a])
    /\ pid_values_mutex' = [pid_values_mutex EXCEPT ![a] = Ctl]
    /\ Goto(Ctl, a \o "320")
    /\ UNCHANGED <<sensv, gains, cvs, control_vars_mutex, conv, outs, cmdv, nSteps, clean>>

\* motor_control_step, lines 320-322
motor_control_step_output(a) ==
    /\ pc[Ctl] = a \o "320"
    /\ current_control_vars' =
          [current_control_vars EXCEPT
              ![a].pid_output = PidOutput(current_pid_values[a], current_control_vars[a])]
    /\ Goto(Ctl, a \o "323")
    /\ UNCHANGED <<sensv, gains, prev_control_vars, mutexes, conv, outs, cmdv, nSteps, clean>>

\* motor_control_step, lines 323-324
motor_control_step_unlock(a, next) ==
    /\ pc[Ctl] = a \o "323"
    /\ \E h \in UnlockOutcomes(pid_values_mutex[a], Ctl) :
         pid_values_mutex' = [pid_values_mutex EXCEPT ![a] = h]
    /\ Goto(Ctl, next)
    /\ UNCHANGED <<sensv, gains, cvs, control_vars_mutex, conv, outs, cmdv, nSteps, clean>>

\* lines 193-199 (azimuth) and 201-207 (altitude): anti-windup
pid_update_anti_windup(a, here, next) ==
    /\ pc[Ctl] = here
    /\ current_control_vars' =
          [current_control_vars EXCEPT
              ![a].integral = AntiWindup(current_control_vars[a].integral,
                                         current_pid_values[WindupGainAxis(a)].ki,
                                         max_motor_ang)]
    /\ Goto(Ctl, next)
    /\ UNCHANGED <<sensv, gains, prev_control_vars, mutexes, conv, outs, cmdv, nSteps, clean>>

\* lines 209-227: output change rate limit, both axes
pid_update_rate_limit ==
    /\ pc[Ctl] = "l210"
    /\ current_control_vars' =
          [a \in Axis |-> [current_control_vars[a] EXCEPT
              !.pid_output = RateLimit(current_control_vars[a].pid_output,
                                       prev_control_vars[a].pid_output,
                                       max_change_rate)]]
    /\ Goto(Ctl, "l229")
    /\ UNCHANGED <<sensv, gains, prev_control_vars, mutexes, conv, outs, cmdv, nSteps, clean>>

\* lines 229-245: threshold and output saturation, both axes
pid_update_saturation ==
    /\ pc[Ctl] = "l229"
    /\ threshold' = SatCode(current_control_vars["az"].pid_output, max_motor_ang)
    /\ current_control_vars' =
          [a \in Axis |-> [current_control_vars[a] EXCEPT
              !.pid_output = Saturate(current_control_vars[a].pid_output, max_motor_ang)]]
    /\ Goto(Ctl, "l252")
    /\ UNCHANGED <<sensv, gains, prev_control_vars, mutexes, conv, motor_out, first_iteration,
                   cmdv, nSteps, clean>>

\* lines 251-253: convert the angle output to motor steps
pid_update_motor_out ==
    /\ pc[Ctl] = "l252"
    /\ motor_out' =
          [a \in Axis |->
              StepsOfAngle(EmittedOutput(current_control_vars[a].pid_output,
                                         current_control_vars[a].position_error),
                           step_per_deg)]
    /\ Goto(Ctl, "l256")
    /\ UNCHANGED <<sensv, gains, cvs, mutexes, conv, threshold, first_iteration, cmdv, nSteps, clean>>

\* lines 255-263: the deadband on pid_output, both axes
pid_update_deadband ==
    /\ pc[Ctl] = "l256"
    /\ current_control_vars' =
          [a \in Axis |-> [current_control_vars[a] EXCEPT
              !.pid_output = DeadbandOutput(current_control_vars[a].pid_output,
                                            current_control_vars[a].position_error)]]
    /\ Goto(Ctl, "l267")
    /\ UNCHANGED <<sensv, gains, prev_control_vars, mutexes, conv, outs, cmdv, nSteps, clean>>

\* lines 267-277: the CSV record, written through logging_csv
pid_update_log ==
    /\ pc[Ctl] = "l267"
    /\ Goto(Ctl, "l279")
    /\ UNCHANGED <<sensv, gains, cvs, mutexes, conv, outs, cmdv, nSteps, clean>>

\* lines 279-280: the current variables become the previous ones
pid_update_store ==
    /\ pc[Ctl] = "l279"
    /\ prev_control_vars' = current_control_vars
    /\ clean' = [t \in Cmds |->
                    IF pc[t] # "idle" /\ op[t].fn = "pid_reset" THEN FALSE ELSE clean[t]]
    /\ Goto(Ctl, "l282")
    /\ UNCHANGED <<sensv, gains, current_control_vars, mutexes, conv, outs, cmdv, nSteps>>

\* lines 282 and 283: unlock the control-variable mutex of axis a
pid_update_unlock_vars(a, here, next) ==
    /\ pc[Ctl] = here
    /\ \E h \in UnlockOutcomes(control_vars_mutex[a], Ctl) :
         control_vars_mutex' = [control_vars_mutex EXCEPT ![a] = h]
    /\ Goto(Ctl, next)
    /\ UNCHANGED <<sensv, gains, cvs, pid_values_mutex, conv, outs, cmdv, nSteps, clean>>

pid_update(limit, Targets) ==
    \/ pid_update_call(limit)
    \/ pid_update_lock_vars("az", "l156", "l157")
    \/ pid_update_lock_vars("alt", "l157", "l160")
    \/ pid_update_inputs(Targets)
    \/ motor_control_step_terms("az", "az319")
    \/ motor_control_step_lock("az")
    \/ motor_control_step_output("az")
    \/ motor_control_step_unlock("az", "alt315")
    \/ motor_control_step_terms("alt", "alt319")
    \/ motor_control_step_lock("alt")
    \/ motor_control_step_output("alt")
    \/ motor_control_step_unlock("alt", "l194")
    \/ pid_update_anti_windup("az", "l194", "l202")
    \/ pid_update_anti_windup("alt", "l202", "l210")
    \/ pid_update_rate_limit
    \/ pid_update_saturation
    \/ pid_update_motor_out
    \/ pid_update_deadband
    \/ pid_update_log
    \/ pid_update_store
    \/ pid_update_unlock_vars("az", "l282", "l283")
    \/ pid_update_unlock_vars("alt", "l283", "idle")

\* ---------------------------------------------- telecommand threads
MotorIds == {1, 2, 3}
ModeIds == {1, 2, 3}
OnOffs == {0, 1, 2}
\* the (motor_id, mode_id) pairs offered to change_mode_pid_values
ModeCalls == ({1, 2} \X ModeIds) \cup {<<3, 1>>}
GainOps == {"change_pid_values", "change_mode_pid_values", "change_stabilization_mode"}

\* motor id 1 is azimuth, 2 is altitude
AxisOf(motor_id) == IF motor_id = 1 THEN "az" ELSE "alt"

InCall(t) == pc[t] # "idle"

\* a call is taken by the first telecommand thread that is not in a call
Dispatched(t) == t = "tc1" \/ InCall("tc1")

Call(fn, motor_id, mode_id, on_off, g) ==
    [fn |-> fn, motor_id |-> motor_id, mode_id |-> mode_id, on_off |-> on_off, g |-> g]

NoCall == Call("none", 0, 0, 0, Gain(0, 0, 0))

\* a thread enters one of the gain operations
GainCall(t, call, first) ==
    /\ pc[t] = "idle"
    /\ Dispatched(t)
    /\ nCalls < MaxCalls
    /\ nCalls' = nCalls + 1
    /\ op' = [op EXCEPT ![t] = call]
    /\ clean' = [u \in Cmds |->
                    IF u = t
                    THEN \A v \in Cmds \ {t} : ~(InCall(v) /\ op[v].fn \in GainOps)
                    ELSE IF InCall(u) /\ op[u].fn = "change_stabilization_mode"
                         THEN FALSE ELSE clean[u]]
    /\ Goto(t, first)
    /\ UNCHANGED <<sensv, gains, cvs, mutexes, conv, outs, ret, nSteps>>

\* return status to the caller
Return(t, status) ==
    /\ ret' = [ret EXCEPT ![t] = status]
    /\ op' = [op EXCEPT ![t] = NoCall]
    /\ clean' = [clean EXCEPT ![t] = TRUE]
    /\ Goto(t, "idle")

\* ------------------------------------------------------ change_pid_values
change_pid_values_call(t) ==
    \E m \in MotorIds, g \in NewGains :
        GainCall(t, Call("change_pid_values", m, 0, 0, g),
                 IF m \in {1, 2} THEN "cpv_lock" ELSE "cpv_349")

\* lines 335 and 342
change_pid_values_lock(t) ==
    /\ pc[t] = "cpv_lock"
    /\ CanLock(pid_values_mutex[AxisOf(op[t].motor_id)])
    /\ pid_values_mutex' = [pid_values_mutex EXCEPT ![AxisOf(op[t].motor_id)] = t]
    /\ Goto(t, "cpv_write")
    /\ UNCHANGED <<sensv, gains, cvs, control_vars_mutex, conv, outs, cmdv, nSteps, clean>>

\* OverrideTarget with the azimuth branch copied into the altitude branch
OverrideTarget_az_only(motor_id) == "az"

\* the active gain set change_pid_values(motor_id, ...) assigns
OverrideTarget(motor_id) == AxisOf(motor_id)

\* lines 336-338 and 343-345
change_pid_values_write(t) ==
    /\ pc[t] = "cpv_write"
    /\ current_pid_values' =
          [current_pid_values EXCEPT ![OverrideTarget(op[t].motor_id)] = op[t].g]
    /\ Goto(t, "cpv_unlock")
    /\ UNCHANGED <<sensv, stab_pid_values, track_pid_values, cvs, mutexes, conv, outs, cmdv,
                   nSteps, clean>>

\* lines 339-340 and 346-347
change_pid_values_unlock(t) ==
    /\ pc[t] = "cpv_unlock"
    /\ \E h \in UnlockOutcomes(pid_values_mutex[AxisOf(op[t].motor_id)], t) :
         pid_values_mutex' = [pid_values_mutex EXCEPT ![AxisOf(op[t].motor_id)] = h]
    /\ Return(t, 0)
    /\ UNCHANGED <<sensv, gains, cvs, control_vars_mutex, conv, outs, nCalls, nSteps>>

\* lines 348-351: wrong motor id
change_pid_values_wrong_motor(t) ==
    /\ pc[t] = "cpv_349"
    /\ Return(t, 1)
    /\ UNCHANGED <<sensv, gains, cvs, mutexes, conv, outs, nCalls, nSteps>>

\* ------------------------------------------------- change_mode_pid_values
change_mode_pid_values_call(t) ==
    \E c \in ModeCalls, g \in NewGains :
        LET m == c[1]
            k == c[2]
        IN
        GainCall(t, Call("change_mode_pid_values", m, k, 0, g),
                 IF m \in {1, 2} THEN "cmv_lock" ELSE "cmv_400")

\* lines 366 and 383
change_mode_pid_values_lock(t) ==
    /\ pc[t] = "cmv_lock"
    /\ CanLock(pid_values_mutex[AxisOf(op[t].motor_id)])
    /\ pid_values_mutex' = [pid_values_mutex EXCEPT ![AxisOf(op[t].motor_id)] = t]
    /\ Goto(t, "cmv_write")
    /\ UNCHANGED <<sensv, gains, cvs, control_vars_mutex, conv, outs, cmdv, nSteps, clean>>

\* ValidMode with a plain else for the stabilization branch
ValidMode_else(mode_id) == TRUE

\* lines 367, 371, 384 and 388: the mode ids that select a stored gain set
ValidMode(mode_id) == mode_id = 1 \/ mode_id = 2

\* the stored gain set change_mode_pid_values(motor_id, mode_id, ...) assigns:
\* mode 1 is tracking (target acquisition), mode 2 is stabilization
StoredTarget(motor_id, mode_id) ==
    [axis |-> AxisOf(motor_id), regime |-> IF mode_id = 1 THEN "track" ELSE "stab"]

\* lines 367-375 and 384-392
change_mode_pid_values_write(t) ==
    /\ pc[t] = "cmv_write"
    /\ LET tg == StoredTarget(op[t].motor_id, op[t].mode_id)
       IN  IF ValidMode(op[t].mode_id)
           THEN /\ track_pid_values' =
                      IF tg.regime = "track"
                      THEN [track_pid_values EXCEPT ![tg.axis] = op[t].g]
                      ELSE track_pid_values
                /\ stab_pid_values' =
                      IF tg.regime = "stab"
                      THEN [stab_pid_values EXCEPT ![tg.axis] = op[t].g]
                      ELSE stab_pid_values
                /\ Goto(t, "cmv_unlock")
           ELSE /\ UNCHANGED <<track_pid_values, stab_pid_values>>
                /\ Goto(t, "cmv_wrong_mode")
    /\ UNCHANGED <<sensv, current_pid_values, cvs, mutexes, conv, outs, cmdv, nSteps, clean>>

\* lines 380-381 and 397-398
change_mode_pid_values_unlock(t) ==
    /\ pc[t] = "cmv_unlock"
    /\ \E h \in UnlockOutcomes(pid_values_mutex[AxisOf(op[t].motor_id)], t) :
         pid_values_mutex' = [pid_values_mutex EXCEPT ![AxisOf(op[t].motor_id)] = h]
    /\ Return(t, 0)
    /\ UNCHANGED <<sensv, gains, cvs, control_vars_mutex, conv, outs, nCalls, nSteps>>

\* the mutex the wrong-mode branch of motor_id unlocks: az_pid_values_mutex
\* on line 377 and on line 394
WrongModeUnlockAxis(motor_id) == "az"

\* lines 375-378 and 392-395: wrong mode id
change_mode_pid_values_wrong_mode(t) ==
    /\ pc[t] = "cmv_wrong_mode"
    /\ LET a == WrongModeUnlockAxis(op[t].motor_id)
       IN  \E h \in UnlockOutcomes(pid_values_mutex[a], t) :
             pid_values_mutex' = [pid_values_mutex EXCEPT ![a] = h]
    /\ Return(t, 1)
    /\ UNCHANGED <<sensv, gains, cvs, control_vars_mutex, conv, outs, nCalls, nSteps>>

\* lines 399-402: wrong motor id
change_mode_pid_values_wrong_motor(t) ==
    /\ pc[t] = "cmv_400"
    /\ Return(t, 1)
    /\ UNCHANGED <<sensv, gains, cvs, mutexes, conv, outs, nCalls, nSteps>>

\* ---------------------------------------------- change_stabilization_mode
change_stabilization_mode_call(t) ==
    \E r \in OnOffs :
        GainCall(t, Call("change_stabilization_mode", 0, 0, r, Gain(0, 0, 0)),
                 IF r \in {0, 1} THEN "csm_lock_az" ELSE "csm_434")

\* lines 412, 416, 423 and 427
change_stabilization_mode_lock(t, a) ==
    /\ pc[t] = "csm_lock_" \o a
    /\ CanLock(pid_values_mutex[a])
    /\ pid_values_mutex' = [pid_values_mutex EXCEPT ![a] = t]
    /\ Goto(t, "csm_copy_" \o a)
    /\ UNCHANGED <<sensv, gains, cvs, control_vars_mutex, conv, outs, cmdv, nSteps, clean>>

\* StoredFor with the two regimes swapped
StoredFor_swapped(on_off, a) ==
    IF on_off = 1 THEN track_pid_values[a] ELSE stab_pid_values[a]

\* the stored gain set of axis a that on_off activates: 1 stabilization,
\* 0 tracking
StoredFor(on_off, a) == IF on_off = 1 THEN stab_pid_values[a] ELSE track_pid_values[a]

\* lines 413, 417, 424 and 428
change_stabilization_mode_copy(t, a) ==
    /\ pc[t] = "csm_copy_" \o a
    /\ current_pid_values' = [current_pid_values EXCEPT ![a] = StoredFor(op[t].on_off, a)]
    /\ Goto(t, "csm_unlock_" \o a)
    /\ UNCHANGED <<sensv, stab_pid_values, track_pid_values, cvs, mutexes, conv, outs, cmdv,
                   nSteps, clean>>

\* lines 414, 418, 425 and 429; after the altitude unlock, lines 420-421 and
\* 431-432 return 0
change_stabilization_mode_unlock(t, a) ==
    /\ pc[t] = "csm_unlock_" \o a
    /\ \E h \in UnlockOutcomes(pid_values_mutex[a], t) :
         pid_values_mutex' = [pid_values_mutex EXCEPT ![a] = h]
    /\ IF a = "az"
       THEN Goto(t, "csm_lock_alt") /\ UNCHANGED <<ret, op, clean>>
       ELSE Return(t, 0)
    /\ UNCHANGED <<sensv, gains, cvs, control_vars_mutex, conv, outs, nCalls, nSteps>>

\* lines 433-436: wrong mode
change_stabilization_mode_wrong(t) ==
    /\ pc[t] = "csm_434"
    /\ Return(t, 1)
    /\ UNCHANGED <<sensv, gains, cvs, mutexes, conv, outs, nCalls, nSteps>>

\* ---------------------------------------------------------------- pid_reset
pid_reset_call(t) ==
    /\ pc[t] = "idle"
    /\ Dispatched(t)
    /\ nCalls < MaxCalls
    /\ nCalls' = nCalls + 1
    /\ op' = [op EXCEPT ![t] = Call("pid_reset", 0, 0, 0, Gain(0, 0, 0))]
    /\ clean' = [clean EXCEPT ![t] = TRUE]
    /\ Goto(t, "rst_lock_az")
    /\ UNCHANGED <<sensv, gains, cvs, mutexes, conv, outs, ret, nSteps>>

\* lines 441 and 448
pid_reset_lock(t, a) ==
    /\ pc[t] = "rst_lock_" \o a
    /\ CanLock(control_vars_mutex[a])
    /\ control_vars_mutex' = [control_vars_mutex EXCEPT ![a] = t]
    /\ Goto(t, "rst_zero_" \o a)
    /\ UNCHANGED <<sensv, gains, cvs, pid_values_mutex, conv, outs, cmdv, nSteps, clean>>

\* ResetVars with the position error left alone
ResetVars_integral_only(v) == [v EXCEPT !.integral = 0]

\* position_error and integral of one control_variables_t set to 0
ResetVars(v) == [v EXCEPT !.position_error = 0, !.integral = 0]

\* lines 442-445 and 449-452
pid_reset_zero(t, a) ==
    /\ pc[t] = "rst_zero_" \o a
    /\ prev_control_vars' = [prev_control_vars EXCEPT ![a] = ResetVars(@)]
    /\ current_control_vars' = [current_control_vars EXCEPT ![a] = ResetVars(@)]
    /\ Goto(t, "rst_unlock_" \o a)
    /\ UNCHANGED <<sensv, gains, mutexes, conv, outs, cmdv, nSteps, clean>>

\* lines 446 and 453
pid_reset_unlock(t, a) ==
    /\ pc[t] = "rst_unlock_" \o a
    /\ \E h \in UnlockOutcomes(control_vars_mutex[a], t) :
         control_vars_mutex' = [control_vars_mutex EXCEPT ![a] = h]
    /\ Goto(t, IF a = "az" THEN "rst_lock_alt" ELSE "rst_455")
    /\ UNCHANGED <<sensv, gains, cvs, pid_values_mutex, conv, outs, cmdv, nSteps, clean>>

\* lines 455-456: the log line, and the return
pid_reset_return(t) ==
    /\ pc[t] = "rst_455"
    /\ Return(t, 0)
    /\ UNCHANGED <<sensv, gains, cvs, mutexes, conv, outs, nCalls, nSteps>>

change_pid_values(t) ==
    \/ change_pid_values_call(t)
    \/ change_pid_values_lock(t)
    \/ change_pid_values_write(t)
    \/ change_pid_values_unlock(t)
    \/ change_pid_values_wrong_motor(t)

change_mode_pid_values(t) ==
    \/ change_mode_pid_values_call(t)
    \/ change_mode_pid_values_lock(t)
    \/ change_mode_pid_values_write(t)
    \/ change_mode_pid_values_unlock(t)
    \/ change_mode_pid_values_wrong_mode(t)
    \/ change_mode_pid_values_wrong_motor(t)

change_stabilization_mode(t) ==
    \/ change_stabilization_mode_call(t)
    \/ \E a \in Axis : change_stabilization_mode_lock(t, a)
    \/ \E a \in Axis : change_stabilization_mode_copy(t, a)
    \/ \E a \in Axis : change_stabilization_mode_unlock(t, a)
    \/ change_stabilization_mode_wrong(t)

pid_reset(t) ==
    \/ pid_reset_call(t)
    \/ \E a \in Axis : pid_reset_lock(t, a)
    \/ \E a \in Axis : pid_reset_zero(t, a)
    \/ \E a \in Axis : pid_reset_unlock(t, a)
    \/ pid_reset_return(t)

\* the controller next to the telecommand threads
Next ==
    \/ pid_update(MaxSteps, NextTargets(LastTarget))
    \/ \E t \in Cmds : change_pid_values(t)
    \/ \E t \in Cmds : change_mode_pid_values(t)
    \/ \E t \in Cmds : change_stabilization_mode(t)
    \/ \E t \in Cmds : pid_reset(t)

Spec == Init /\ [][Next]_vars

\* the controller running alone
NextCtl == pid_update(MaxCtlSteps, TargetChoices(LastTarget))

SpecCtl == Init /\ [][NextCtl]_vars

\* the controller thread is scheduled whenever it can take a step
CtlRuns == pid_update(MaxSteps, NextTargets(LastTarget))

\* a telecommand thread inside a call is scheduled whenever it can take a
\* step; whether a new call arrives is left open
CmdRuns(t) ==
    /\ InCall(t)
    /\ \/ change_pid_values(t)
       \/ change_mode_pid_values(t)
       \/ change_stabilization_mode(t)
       \/ pid_reset(t)

\* the PID component under fair scheduling of its threads
FairSpec ==
    /\ Spec
    /\ WF_vars(CtlRuns)
    /\ \A t \in Cmds : WF_vars(CmdRuns(t))

\* ============================================================ mode registry
\* sampling cycles, start signals and mode calls made in one behaviour
MaxCycles == 3
MaxStarts == 2
MaxModeCalls == 2

SGoto(t, l) == spc' = [spc EXCEPT ![t] = l]

\* thread t is inside get_mode
InGetMode(t) == spc[t] \in {"gm_lock", "gm_read", "gm_unlock", "gm_ret"}

\* a call is taken by the first mode caller that is not in a call
ModeDispatched(t) == t = "mc1" \/ spc["mc1"] # "idle"

\* a caller enters set_mode(v)
set_mode_call(t, limit) ==
    /\ spc[t] = "idle"
    /\ ModeDispatched(t)
    /\ nModeCalls < limit
    /\ nModeCalls' = nModeCalls + 1
    /\ \E v \in ModeValues : arg' = [arg EXCEPT ![t] = v]
    /\ SGoto(t, "sm_lock")
    /\ UNCHANGED <<pidv, wakev, modev, ch, lastStored, overlapped, thrv, cyclev, bootv>>

\* line 492
set_mode_lock(t) ==
    /\ spc[t] = "sm_lock"
    /\ CanLock(mutex_mode)
    /\ mutex_mode' = t
    /\ SGoto(t, "sm_write")
    /\ UNCHANGED <<pidv, wakev, mode, callv, thrv, cyclev, bootv>>

\* line 493: mode = ch
set_mode_write(t) ==
    /\ spc[t] = "sm_write"
    /\ mode' = arg[t]
    /\ resetHeld' = IF arg[t] = "RESET" THEN resetHeld ELSE FALSE
    /\ SGoto(t, "sm_unlock")
    /\ UNCHANGED <<pidv, wakev, mutex_mode, callv, mutex_cond_gyro, wokenBy, nStarts, nCycles,
                   resetCycles, cyclev, bootv>>

\* line 494 and the return: the call is complete
set_mode_unlock(t) ==
    /\ spc[t] = "sm_unlock"
    /\ \E h \in UnlockOutcomes(mutex_mode, t) : mutex_mode' = h
    /\ lastStored' = arg[t]
    /\ overlapped' = [u \in SensThreads |-> InGetMode(u) \/ overlapped[u]]
    /\ IF arg[t] = "RESET" /\ mode = "RESET"
       THEN resetHeld' = TRUE /\ resetCycles' = 0
       ELSE UNCHANGED <<resetHeld, resetCycles>>
    /\ SGoto(t, "idle")
    /\ UNCHANGED <<pidv, wakev, mode, ch, arg, nModeCalls, mutex_cond_gyro, wokenBy, nStarts,
                   nCycles, cyclev, bootv>>

\* a caller enters get_mode
get_mode_call(t, limit) ==
    /\ spc[t] = "idle"
    /\ ModeDispatched(t)
    /\ nModeCalls < limit
    /\ nModeCalls' = nModeCalls + 1
    /\ overlapped' = [overlapped EXCEPT ![t] = FALSE]
    /\ SGoto(t, "gm_lock")
    /\ UNCHANGED <<pidv, wakev, modev, ch, arg, lastStored, thrv, cyclev, bootv>>

\* line 502
get_mode_lock(t) ==
    /\ spc[t] = "gm_lock"
    /\ CanLock(mutex_mode)
    /\ mutex_mode' = t
    /\ SGoto(t, "gm_read")
    /\ UNCHANGED <<pidv, wakev, mode, callv, thrv, cyclev, bootv>>

\* line 503: ch = mode
get_mode_read(t) ==
    /\ spc[t] = "gm_read"
    /\ ch' = [ch EXCEPT ![t] = mode]
    /\ SGoto(t, "gm_unlock")
    /\ UNCHANGED <<pidv, wakev, modev, arg, nModeCalls, lastStored, overlapped, thrv, cyclev,
                   bootv>>

\* line 504
get_mode_unlock(t) ==
    /\ spc[t] = "gm_unlock"
    /\ \E h \in UnlockOutcomes(mutex_mode, t) : mutex_mode' = h
    /\ SGoto(t, "gm_ret")
    /\ UNCHANGED <<pidv, wakev, mode, callv, thrv, cyclev, bootv>>

\* line 506: return ch to a caller
get_mode_return(t) ==
    /\ spc[t] = "gm_ret"
    /\ SGoto(t, "idle")
    /\ UNCHANGED <<pidv, wakev, modev, callv, thrv, cyclev, bootv>>

set_mode(t, limit) ==
    \/ set_mode_call(t, limit)
    \/ set_mode_lock(t)
    \/ set_mode_write(t)
    \/ set_mode_unlock(t)

\* get_mode as far as its return statement
get_mode(t) ==
    \/ get_mode_lock(t)
    \/ get_mode_read(t)
    \/ get_mode_unlock(t)

\* ========================================================= gyroscope poller
\* *(int32_t*)buffer of a little-endian build, from the four bytes of buffer
Int32LE(b0, b1, b2, b3) ==
    b0 + 256 * b1 + 65536 * b2 + 16777216 * (IF b3 >= 128 THEN b3 - 256 ELSE b3)

\* *(int16_t*)buffer of a little-endian build
Int16LE(b0, b1) == b0 + 256 * (IF b1 >= 128 THEN b1 - 256 ELSE b1)

\* SignByte without the sign extension
SignByte_zero(msb) == 0

\* line 198: (msb & 0x80) ? 0xFF : 0x00
SignByte(msb) == IF (msb \div 128) % 2 = 1 THEN 255 ELSE 0

\* lines 193-200: rate[ii] of datagram d, in 1/RateScale degree per second
DecodeRate(d, ii) ==
    Int32LE(d[3 + 3 * ii], d[2 + 3 * ii], d[1 + 3 * ii], SignByte(d[1 + 3 * ii]))

\* lines 211-214: the temperature of datagram d, in 1/TempScale degree
DecodeTemp(d) == Int16LE(d[12], d[11])

\* TerminatorOk with the CR test forgotten
TerminatorOk_lf_only(d) == d[DATAGRAM_SIZE - 1] = LF

\* lines 177-178: the datagram ends with CR LF
TerminatorOk(d) == d[DATAGRAM_SIZE - 2] = CR /\ d[DATAGRAM_SIZE - 1] = LF

\* RateQualityOk with the status byte ignored
RateQualityOk_always(d) == TRUE

\* line 185: the status byte of the rates
RateQualityOk(d) == d[10] = 0

\* TempQualityOk with the status byte ignored
TempQualityOk_always(d) == TRUE

\* line 210: the status byte of the temperature
TempQualityOk(d) == d[17] = 0

\* KeepsSampling without the test of the mode
KeepsSampling_always(c) == TRUE

\* line 126: the loop condition get_mode() != RESET
KeepsSampling(c) == c # "RESET"

\* the accessors of the sensors component the poller calls
gyro_out_of_date(r) == [r EXCEPT !.out_of_date = 1]

set_gyro(r, g) == [r EXCEPT !.x = g.x, !.y = g.y, !.z = g.z, !.out_of_date = 0]

set_gyro_temp(r, t) == [r EXCEPT !.temp = t]

\* ------------------------------------------------------------ thread_func
\* line 109
thread_func_lock ==
    /\ spc[Gyro] = "l109"
    /\ CanLock(mutex_cond_gyro)
    /\ mutex_cond_gyro' = Gyro
    /\ SGoto(Gyro, "l114")
    /\ UNCHANGED <<pidv, wakev, modev, callv, wokenBy, nStarts, nCycles, resetHeld, resetCycles,
                   cyclev, bootv>>

\* lines 114-118: FT_Purge, a failure is only logged
thread_func_purge ==
    /\ spc[Gyro] = "l114"
    /\ SGoto(Gyro, "l122")
    /\ UNCHANGED <<pidv, wakev, modev, callv, thrv, cyclev, bootv>>

\* line 122: pthread_cond_wait releases the mutex and blocks
cond_wait_block ==
    /\ spc[Gyro] = "l122"
    /\ \E h \in UnlockOutcomes(mutex_cond_gyro, Gyro) : mutex_cond_gyro' = h
    /\ SGoto(Gyro, "waiting")
    /\ UNCHANGED <<pidv, wakev, modev, callv, wokenBy, nStarts, nCycles, resetHeld, resetCycles,
                   cyclev, bootv>>

\* the external wake call signals cond_gyro; a signal that finds no waiter
\* is lost
start_signal ==
    /\ nStarts < MaxStarts
    /\ nStarts' = nStarts + 1
    /\ IF spc[Gyro] = "waiting"
       THEN SGoto(Gyro, "woken") /\ wokenBy' = "signal"
       ELSE UNCHANGED <<spc, wokenBy>>
    /\ UNCHANGED <<pidv, wakev, modev, callv, mutex_cond_gyro, nCycles, resetHeld, resetCycles,
                   cyclev, bootv>>

\* line 122: pthread_cond_wait may return without a signal (spurious wakeup)
cond_wait_spurious ==
    /\ spc[Gyro] = "waiting"
    /\ wokenBy' = "spurious"
    /\ SGoto(Gyro, "woken")
    /\ UNCHANGED <<pidv, wakev, modev, callv, mutex_cond_gyro, nStarts, nCycles, resetHeld,
                   resetCycles, cyclev, bootv>>

\* line 122: pthread_cond_wait returns with the mutex locked again
cond_wait_return ==
    /\ spc[Gyro] = "woken"
    /\ CanLock(mutex_cond_gyro)
    /\ mutex_cond_gyro' = Gyro
    /\ SGoto(Gyro, "l124")
    /\ UNCHANGED <<pidv, wakev, modev, callv, wokenBy, nStarts, nCycles, resetHeld, resetCycles,
                   cyclev, bootv>>

\* line 124: clock_gettime; then the first get_mode of line 126
thread_func_clock(Clocks) ==
    /\ spc[Gyro] = "l124"
    /\ \E now \in Clocks :
         /\ wake_time' = now
         /\ wake0' = now
    /\ nth' = 0
    /\ overlapped' = [overlapped EXCEPT ![Gyro] = FALSE]
    /\ SGoto(Gyro, "gm_lock")
    /\ UNCHANGED <<pidv, GYRO_SAMPLE_TIME, modev, ch, arg, nModeCalls, lastStored, thrv,
                   cyclev, bootv>>

\* line 126: the loop condition on the value get_mode returned
thread_func_test ==
    /\ spc[Gyro] = "gm_ret"
    /\ IF KeepsSampling(ch[Gyro])
       THEN /\ nCycles < MaxCycles
            /\ nCycles' = nCycles + 1
            /\ resetCycles' = resetCycles + 1
            /\ reading0' = reading
            /\ SGoto(Gyro, "l150")
       ELSE /\ SGoto(Gyro, "l122")
            /\ UNCHANGED <<nCycles, resetCycles, reading0>>
    /\ UNCHANGED <<pidv, wakev, modev, callv, mutex_cond_gyro, wokenBy, nStarts, resetHeld,
                   data, bytes_available, ft_ret, rate, gyro, reading, lastGood, bootv>>

\* CarryNsec that lets a nanosecond part of exactly one second stand
CarryNsec_above(ts) ==
    IF ts.tv_nsec > NsecPerSec
    THEN Timespec(ts.tv_sec + 1, ts.tv_nsec - NsecPerSec)
    ELSE ts

\* lines 130-133: one second is carried out of the nanosecond part
CarryNsec(ts) ==
    IF ts.tv_nsec >= NsecPerSec
    THEN Timespec(ts.tv_sec + 1, ts.tv_nsec - NsecPerSec)
    ELSE ts

\* line 129 and the carry: the wake time one period later
NextWake(ts, period) == CarryNsec(Timespec(ts.tv_sec, ts.tv_nsec + period))

\* lines 129-133: the next wake time
thread_func_deadline ==
    /\ spc[Gyro] = "l129"
    /\ wake_time' = NextWake(wake_time, GYRO_SAMPLE_TIME)
    /\ nth' = nth + 1
    /\ SGoto(Gyro, "l134")
    /\ UNCHANGED <<pidv, wake0, GYRO_SAMPLE_TIME, modev, callv, thrv, cyclev, bootv>>

\* line 134: clock_nanosleep; then get_mode of line 126
thread_func_sleep ==
    /\ spc[Gyro] = "l134"
    /\ overlapped' = [overlapped EXCEPT ![Gyro] = FALSE]
    /\ SGoto(Gyro, "gm_lock")
    /\ UNCHANGED <<pidv, wakev, modev, ch, arg, nModeCalls, lastStored, thrv, cyclev, bootv>>

thread_func(Clocks) ==
    \/ thread_func_lock
    \/ thread_func_purge
    \/ cond_wait_block
    \/ cond_wait_spurious
    \/ cond_wait_return
    \/ thread_func_clock(Clocks)
    \/ get_mode(Gyro)
    \/ thread_func_test
    \/ thread_func_deadline
    \/ thread_func_sleep

\* --------------------------------------------------------------- active_m
\* lines 149-155: the trigger pulse on the GPIO line, and the conversion wait
active_m_trigger ==
    /\ spc[Gyro] = "l150"
    /\ trig' = "HIGH"
    /\ SGoto(Gyro, "l159")
    /\ UNCHANGED <<pidv, wakev, modev, callv, thrv, cyclev, bpc, pid_log, gyro_log, fd, pid_ret,
                   gyro_ret>>

\* lines 158-160: read single bytes until the datagram identifier arrives
active_m_find_start ==
    /\ spc[Gyro] = "l159"
    /\ \E b \in {DATAGRAM_IDENTIFIER, 0} :
         /\ data' = [data EXCEPT ![0] = b]
         /\ SGoto(Gyro, IF b # DATAGRAM_IDENTIFIER THEN "l159" ELSE "l164")
    /\ UNCHANGED <<pidv, wakev, modev, callv, thrv, bytes_available, ft_ret, rate, gyro, reading,
                   reading0, lastGood, bootv>>

\* lines 163-166: poll the queue until the rest of the datagram is there
active_m_wait_datagram ==
    /\ spc[Gyro] = "l164"
    /\ \E n \in {0, DATAGRAM_SIZE - 1} :
         /\ bytes_available' = n
         /\ SGoto(Gyro, IF n < DATAGRAM_SIZE - 1 THEN "l164" ELSE "l169")
    /\ UNCHANGED <<pidv, wakev, modev, callv, thrv, data, ft_ret, rate, gyro, reading, reading0,
                   lastGood, bootv>>

\* lines 169-174: read data[1 .. DATAGRAM_SIZE-1]; a failed read ends the cycle
active_m_read(Delivered) ==
    /\ spc[Gyro] = "l169"
    /\ \E st \in FtStatus, d \in Delivered :
         /\ ft_ret' = st
         /\ data' = IF st = "FT_OK"
                    THEN [i \in 0 .. DATAGRAM_SIZE - 1 |-> IF i = 0 THEN data[0] ELSE d[i]]
                    ELSE data
         /\ SGoto(Gyro, IF st # "FT_OK" THEN "l129" ELSE "l177")
    /\ UNCHANGED <<pidv, wakev, modev, callv, thrv, bytes_available, rate, gyro, reading,
                   reading0, lastGood, bootv>>

\* lines 177-182: a wrong terminator ends the cycle
active_m_terminator ==
    /\ spc[Gyro] = "l177"
    /\ SGoto(Gyro, IF TerminatorOk(data) THEN "l185" ELSE "l129")
    /\ UNCHANGED <<pidv, wakev, modev, callv, thrv, cyclev, bootv>>

\* lines 185-190: a bad rate status marks the reading out of date and ends
\* the cycle
active_m_quality ==
    /\ spc[Gyro] = "l185"
    /\ IF RateQualityOk(data)
       THEN SGoto(Gyro, "l193") /\ UNCHANGED reading
       ELSE SGoto(Gyro, "l129") /\ reading' = gyro_out_of_date(reading)
    /\ UNCHANGED <<pidv, wakev, modev, callv, thrv, data, bytes_available, ft_ret, rate, gyro,
                   reading0, lastGood, bootv>>

\* lines 193-200
active_m_decode ==
    /\ spc[Gyro] = "l193"
    /\ rate' = <<DecodeRate(data, 0), DecodeRate(data, 1), DecodeRate(data, 2)>>
    /\ SGoto(Gyro, "l203")
    /\ UNCHANGED <<pidv, wakev, modev, callv, thrv, data, bytes_available, ft_ret, gyro, reading,
                   reading0, lastGood, bootv>>

\* lines 203-207: the rates go into gyro and set_gyro publishes them
active_m_publish ==
    /\ spc[Gyro] = "l203"
    /\ gyro' = [x |-> rate[1], y |-> rate[2], z |-> rate[3]]
    /\ reading' = set_gyro(reading, gyro')
    /\ lastGood' = <<gyro'.x, gyro'.y, gyro'.z>>
    /\ SGoto(Gyro, "l210")
    /\ UNCHANGED <<pidv, wakev, modev, callv, thrv, data, bytes_available, ft_ret, rate,
                   reading0, bootv>>

\* lines 209-221: the temperature, published only with a good status
active_m_temperature ==
    /\ spc[Gyro] = "l210"
    /\ reading' = IF TempQualityOk(data)
                  THEN set_gyro_temp(reading, DecodeTemp(data))
                  ELSE reading
    /\ SGoto(Gyro, "l223")
    /\ UNCHANGED <<pidv, wakev, modev, callv, thrv, data, bytes_available, ft_ret, rate, gyro,
                   reading0, lastGood, bootv>>

\* lines 223-224: logging_csv(gyro_log, ...), and the return
active_m_log ==
    /\ spc[Gyro] = "l223"
    /\ SGoto(Gyro, "l129")
    /\ UNCHANGED <<pidv, wakev, modev, callv, thrv, cyclev, bootv>>

active_m(Delivered) ==
    \/ active_m_trigger
    \/ active_m_find_start
    \/ active_m_wait_datagram
    \/ active_m_read(Delivered)
    \/ active_m_terminator
    \/ active_m_quality
    \/ active_m_decode
    \/ active_m_publish
    \/ active_m_temperature
    \/ active_m_log

\* --------------------------------------------------------- initialisation
\* init_pid, called with the statics untouched: the log file may fail to open
init_pid_call ==
    /\ bpc = "init_pid"
    /\ \E f \in {"open", "NULL"} : pid_log' = f
    /\ prev_control_vars' = [a \in Axis |-> ZeroVars]
    /\ step_per_deg' = StepPerDeg
    /\ max_motor_ang' = AngleOfSteps(MaxMotorSteps, StepPerDeg)
    /\ max_change_rate' = AngleOfSteps(MaxChangeSteps, StepPerDeg)
    /\ current_pid_values' = [a \in Axis |-> StoredFor(0, a)]
    /\ pid_ret' = "SUCCESS"
    /\ bpc' = "l48"
    /\ UNCHANGED <<stab_pid_values, track_pid_values, current_control_vars, mutexes,
                   outs, pc, cmdv, nSteps, clean>>
    /\ UNCHANGED <<modev, spc, callv, thrv, cyclev, gyro_log, trig, fd, gyro_ret, wakev>>

\* lines 48-54: the log file of the poller
init_gyroscope_poller_log ==
    /\ bpc = "l48"
    /\ \E f \in {"open", "NULL"} :
         /\ gyro_log' = f
         /\ IF f = "NULL"
            THEN gyro_ret' = "errno" /\ bpc' = "done"
            ELSE bpc' = "l57" /\ UNCHANGED gyro_ret
    /\ UNCHANGED <<pidv, wakev, modev, spc, callv, thrv, cyclev, pid_log, trig, fd, pid_ret>>

\* lines 57-60 and 62-65: gpio_export and gpio_direction
init_gyroscope_poller_gpio(here, next, pin) ==
    /\ bpc = here
    /\ \E r \in {"SUCCESS", "FAILURE"} :
         IF r # "SUCCESS"
         THEN gyro_ret' = r /\ bpc' = "done" /\ UNCHANGED trig
         ELSE bpc' = next /\ trig' = pin /\ UNCHANGED gyro_ret
    /\ UNCHANGED <<pidv, wakev, modev, spc, callv, thrv, cyclev, pid_log, gyro_log, fd, pid_ret>>

\* line 67
init_gyroscope_poller_trig ==
    /\ bpc = "l67"
    /\ trig' = "HIGH"
    /\ bpc' = "l76"
    /\ UNCHANGED <<pidv, wakev, modev, spc, callv, thrv, cyclev, pid_log, gyro_log, fd, pid_ret,
                   gyro_ret>>

\* lines 76-81, 83-88, 90-95 and 97-102: open and configure the transport
init_gyroscope_poller_ft(here, next, state) ==
    /\ bpc = here
    /\ \E st \in FtStatus :
         IF st # "FT_OK"
         THEN gyro_ret' = "FAILURE" /\ bpc' = "done" /\ UNCHANGED fd
         ELSE bpc' = next /\ fd' = state /\ UNCHANGED gyro_ret
    /\ UNCHANGED <<pidv, wakev, modev, spc, callv, thrv, cyclev, pid_log, gyro_log, trig,
                   pid_ret>>

\* line 104: create_thread
init_gyroscope_poller_thread ==
    /\ bpc = "l104"
    /\ \E r \in {"SUCCESS", "FAILURE"} :
         /\ gyro_ret' = r
         /\ IF r = "SUCCESS" THEN SGoto(Gyro, "l109") ELSE UNCHANGED spc
    /\ bpc' = "done"
    /\ UNCHANGED <<pidv, wakev, modev, callv, thrv, cyclev, pid_log, gyro_log, trig, fd, pid_ret>>

init_gyroscope_poller ==
    \/ init_gyroscope_poller_log
    \/ init_gyroscope_poller_gpio("l57", "l62", "exported")
    \/ init_gyroscope_poller_gpio("l62", "l67", "output")
    \/ init_gyroscope_poller_trig
    \/ init_gyroscope_poller_ft("l76", "l83", "open")
    \/ init_gyroscope_poller_ft("l83", "l90", "baudrate")
    \/ init_gyroscope_poller_ft("l90", "l97", "timeouts")
    \/ init_gyroscope_poller_ft("l97", "l104", "configured")
    \/ init_gyroscope_poller_thread

\* ---------------------------------------------------------- specifications
\* before the initialisation calls: nothing is set up, no thread exists
InitBoot ==
    /\ PidStatic
    /\ pid_values_mutex = [a \in Axis |-> NoThread]
    /\ control_vars_mutex = [a \in Axis |-> NoThread]
    /\ pc = [t \in Threads |-> "idle"]
    /\ op = [t \in Cmds |-> NoCall]
    /\ ret = [t \in Cmds |-> 0]
    /\ nSteps = 0
    /\ nCalls = 0
    /\ clean = [t \in Cmds |-> TRUE]
    /\ ModeReady
    /\ GyroStatic
    /\ spc = [t \in SensThreads |-> IF t = Gyro THEN "none" ELSE "idle"]
    /\ \E ood \in {0, 1} :
         /\ reading = Reading(0, 0, 0, 0, ood)
         /\ reading0 = Reading(0, 0, 0, 0, ood)
    /\ bpc = "init_pid"
    /\ pid_log = "unset"
    /\ gyro_log = "unset"
    /\ trig = "unexported"
    /\ fd = "closed"
    /\ pid_ret = "none"
    /\ gyro_ret = "none"

\* the initialisation calls, then the poller next to one mode caller
NextGyro ==
    \/ init_pid_call
    \/ init_gyroscope_poller
    \/ thread_func(OneClock)
    \/ active_m(Datagrams)
    \/ start_signal
    \/ set_mode("mc1", 1)

SpecGyro == InitBoot /\ [][NextGyro]_vars

\* the poller has been created; the mode callers have not called yet
InitMode ==
    /\ init_pid
    /\ pid_values_mutex = [a \in Axis |-> NoThread]
    /\ control_vars_mutex = [a \in Axis |-> NoThread]
    /\ pc = [t \in Threads |-> "idle"]
    /\ op = [t \in Cmds |-> NoCall]
    /\ ret = [t \in Cmds |-> 0]
    /\ nSteps = 0
    /\ nCalls = 0
    /\ clean = [t \in Cmds |-> TRUE]
    /\ ModeReady
    /\ GyroStatic
    /\ spc = [t \in SensThreads |-> IF t = Gyro THEN "l109" ELSE "idle"]
    /\ reading = Reading(0, 0, 0, 0, 0)
    /\ reading0 = Reading(0, 0, 0, 0, 0)
    /\ bpc = "done"
    /\ pid_log = "open"
    /\ gyro_log = "open"
    /\ trig = "HIGH"
    /\ fd = "configured"
    /\ pid_ret = "SUCCESS"
    /\ gyro_ret = "SUCCESS"

\* the poller next to the mode callers
NextMode ==
    \/ thread_func(OneClock)
    \/ active_m(OneDatagram)
    \/ start_signal
    \/ \E t \in ModeCallers : set_mode(t, MaxModeCalls)
    \/ \E t \in ModeCallers : get_mode_call(t, MaxModeCalls)
    \/ \E t \in ModeCallers : get_mode(t)
    \/ \E t \in ModeCallers : get_mode_return(t)

SpecMode == InitMode /\ [][NextMode]_vars

\* the poller thread is scheduled and every loop of a cycle ends; a mode
\* caller that holds the mode mutex goes on to release it
GyroRuns ==
    \/ thread_func_lock
    \/ thread_func_purge
    \/ cond_wait_block
    \/ cond_wait_return
    \/ thread_func_clock(OneClock)
    \/ get_mode(Gyro)
    \/ thread_func_test
    \/ thread_func_deadline
    \/ thread_func_sleep
    \/ active_m_trigger
    \/ active_m_find_start /\ data'[0] = DATAGRAM_IDENTIFIER
    \/ active_m_wait_datagram /\ bytes_available' >= DATAGRAM_SIZE - 1
    \/ active_m_read(OneDatagram)
    \/ active_m_terminator
    \/ active_m_quality
    \/ active_m_decode
    \/ active_m_publish
    \/ active_m_temperature
    \/ active_m_log

CallerRuns(t) ==
    \/ set_mode_lock(t)
    \/ set_mode_write(t)
    \/ set_mode_unlock(t)
    \/ get_mode(t)
    \/ get_mode_return(t)

FairMode ==
    /\ SpecMode
    /\ WF_vars(GyroRuns)
    /\ \A t \in ModeCallers : WF_vars(CallerRuns(t))

\* ------------------------------------------------ the periodic schedule
\* the poller has been created, for any of the sample periods
InitWake ==
    /\ init_pid
    /\ pid_values_mutex = [a \in Axis |-> NoThread]
    /\ control_vars_mutex = [a \in Axis |-> NoThread]
    /\ pc = [t \in Threads |-> "idle"]
    /\ op = [t \in Cmds |-> NoCall]
    /\ ret = [t \in Cmds |-> 0]
    /\ nSteps = 0
    /\ nCalls = 0
    /\ clean = [t \in Cmds |-> TRUE]
    /\ ModeReady
    /\ \E period \in SamplePeriods : GyroStatics(period)
    /\ spc = [t \in SensThreads |-> IF t = Gyro THEN "l109" ELSE "idle"]
    /\ reading = Reading(0, 0, 0, 0, 0)
    /\ reading0 = Reading(0, 0, 0, 0, 0)
    /\ bpc = "done"
    /\ pid_log = "open"
    /\ gyro_log = "open"
    /\ trig = "HIGH"
    /\ fd = "configured"
    /\ pid_ret = "SUCCESS"
    /\ gyro_ret = "SUCCESS"

\* the poller, woken at any of the clock readings, next to one mode caller
NextPeriodic ==
    \/ thread_func(ClockChoices)
    \/ active_m(OneDatagram)
    \/ start_signal
    \/ set_mode("mc1", 1)

SpecWake == InitWake /\ [][NextPeriodic]_vars

\* ------------------------------------------------ the sample decoding
\* values of the most significant, the middle and the least significant
\* byte of a 24-bit sample
MsbChoices == {0, 127, 128, 255}
MidChoices == {0, 255}
LsbChoices == {0, 1, 255}

\* 3-byte groups in datagram order
SampleGroups == MsbChoices \X MidChoices \X LsbChoices

\* the group the other two channels carry
FillerGroup == <<1, 2, 3>>

\* sound datagrams with group g in channel ii
DecodeDatagram(g, ii) ==
    Datagram(IF ii = 0 THEN g ELSE FillerGroup,
             IF ii = 1 THEN g ELSE FillerGroup,
             IF ii = 2 THEN g ELSE FillerGroup,
             0, <<0, 0>>, 0, CR, LF)

DecodeDatagrams == {DecodeDatagram(g, ii) : g \in SampleGroups, ii \in 0 .. 2}

\* the poller sampling any of the 24-bit samples
NextDecode ==
    \/ thread_func(OneClock)
    \/ active_m(DecodeDatagrams)
    \/ start_signal

SpecDecode == InitMode /\ [][NextDecode]_vars

\* ------------------------------------------------ the first control step
\* values of step_per_deg, which the motor constants of init_pid decide
SpdChoices == {2, 4, 100}

\* kp = 1, ki = 0, kd = 0
UnitGain == Gain(GainScale, 0, 0)

\* target angles of 10 degrees, and of 0.1 degree on the altitude axis
ScenarioTargets == {[az |-> 10 * PosScale, alt |-> 10 * PosScale],
                    [az |-> 10 * PosScale, alt |-> 10]}

\* init_pid has run with one of the step_per_deg values, and
\* change_pid_values(1, 1, 0, 0), with or without change_pid_values(2, 1, 0, 0),
\* has set the active gains
InitStep ==
    /\ stab_pid_values = StabDefault
    /\ track_pid_values = TrackDefault
    /\ current_pid_values \in {[az |-> UnitGain, alt |-> UnitGain],
                               [az |-> UnitGain, alt |-> TrackDefault["alt"]]}
    /\ prev_control_vars = [a \in Axis |-> ZeroVars]
    /\ current_control_vars = [a \in Axis |-> ZeroVars]
    /\ step_per_deg \in SpdChoices
    /\ max_motor_ang = AngleOfSteps(MaxMotorSteps, step_per_deg)
    /\ max_change_rate = AngleOfSteps(MaxChangeSteps, step_per_deg)
    /\ threshold = 0
    /\ motor_out = [az |-> 0, alt |-> 0]
    /\ first_iteration = 1
    /\ SensReady
    /\ pid_values_mutex = [a \in Axis |-> NoThread]
    /\ control_vars_mutex = [a \in Axis |-> NoThread]
    /\ pc = [t \in Threads |-> "idle"]
    /\ op = [t \in Cmds |-> NoCall]
    /\ ret = [t \in Cmds |-> 0]
    /\ nSteps = 0
    /\ nCalls = 0
    /\ clean = [t \in Cmds |-> TRUE]

NextStep == pid_update(MaxSteps, ScenarioTargets)

SpecStep == InitStep /\ [][NextStep]_vars

\* the axes whose active gain set the step pid_update takes from l reads:
\* motor_control_step lines 320-322, the anti-windup lines 194-206 and the
\* log record lines 271-273
GainsReadAt(l) ==
    CASE l \in {"az320", "l194", "l202", "l267"} -> {"az"}
      [] l = "alt320" -> {"alt"}
      [] OTHER -> {}

\* the steps at which pid_update calls get_tracking_angles (line 162) and
\* logging_csv (line 267)
ExternalCallAt == {"l160", "l267"}

\* ================================================================ claims
\* pid_update has run its stages up to and including the deadband and still
\* holds both control-variable mutexes
StepComputed == pc[Ctl] \in {"l267", "l279", "l282"}

\* pid_update has run its saturation stage
Saturated == pc[Ctl] \in {"l252", "l256", "l267", "l279", "l282", "l283"}

\* the call a step of thread t belongs to
CallOf(t) == IF InCall(t) THEN op[t] ELSE op'[t]

\* thread t takes a step
Steps(t) == pc'[t] # pc[t]

Zeroed(v) == v.integral = 0 /\ v.position_error = 0

\* C1: in every control step and for each axis, a position error below the
\* deadband 0.02 makes the emitted motor step count 0.
C1_DeadbandSuppressesSteps ==
    StepComputed =>
        \A a \in Axis :
            Abs(current_control_vars[a].position_error) < Deadband => motor_out[a] = 0

\* C2: in every control step and for each axis, a position error below the
\* deadband makes the stored final output, the previous output of the next
\* step, exactly 0.
C2_DeadbandZeroesOutput ==
    /\ StepComputed =>
          \A a \in Axis :
              Abs(current_control_vars[a].position_error) < Deadband
                  => current_control_vars[a].pid_output = 0
    /\ pc[Ctl] = "l282" =>
          \A a \in Axis :
              Abs(prev_control_vars[a].position_error) < Deadband
                  => prev_control_vars[a].pid_output = 0

\* a step stored an output of 0 for an azimuth error inside the deadband
\* although the stages before the deadband had emitted motor steps
C2_Witness ==
    /\ pc[Ctl] = "l282"
    /\ Abs(prev_control_vars["az"].position_error) < Deadband
    /\ motor_out["az"] # 0
    /\ prev_control_vars["az"].pid_output = 0

\* the anti-windup stage of axis a is the step from here
WindupPc(a) == IF a = "az" THEN "l194" ELSE "l202"

\* C3: the anti-windup of a control step leaves |ki * integral| within
\* max_motor_ang on each axis, ki > 0 being the active integral gain of that
\* same axis (no gain operation being in progress).
C3_AntiWindupBound ==
    [][\A a \in Axis :
          (/\ pc[Ctl] = WindupPc(a) /\ Steps(Ctl)
           /\ \A t \in Cmds : ~InCall(t)
           /\ current_pid_values[a].ki > 0)
              => Abs(current_pid_values[a].ki * current_control_vars'[a].integral)
                     <= max_motor_ang]_vars

\* C4 as stated: the final output of a step, before it is stored, differs from
\* the stored final output of the step before by at most max_change_rate.
C4_FinalOutputRateBound ==
    pc[Ctl] = "l279" =>
        \A a \in Axis :
            Abs(current_control_vars[a].pid_output - prev_control_vars[a].pid_output)
                <= max_change_rate

\* C4 amended: the output after the rate limit and after the saturation, the
\* value that is converted to motor steps, differs from the stored final
\* output of the step before by at most max_change_rate.
C4_LimitedOutputRateBound ==
    pc[Ctl] \in {"l229", "l252", "l256"} =>
        \A a \in Axis :
            Abs(current_control_vars[a].pid_output - prev_control_vars[a].pid_output)
                <= max_change_rate

\* the rate limit cut an azimuth output that the control law had raised by
\* more than max_change_rate above a non-zero previous output
C4_Witness ==
    /\ pc[Ctl] = "l229"
    /\ prev_control_vars["az"].pid_output > 0
    /\ PidOutput(current_pid_values["az"], current_control_vars["az"])
           - prev_control_vars["az"].pid_output > max_change_rate
    /\ current_control_vars["az"].pid_output
           = prev_control_vars["az"].pid_output + max_change_rate

\* C5: after the saturation stage the output of each axis is within
\* max_motor_ang, and the emitted motor step count of each axis is within 35.
C5_OutputSaturated ==
    /\ Saturated =>
          \A a \in Axis : Abs(current_control_vars[a].pid_output) <= max_motor_ang
    /\ \A a \in Axis : Abs(motor_out[a]) <= MaxMotorSteps

\* the azimuth output was clamped to +max_motor_ang and emitted as 35 steps
C5_Witness ==
    /\ pc[Ctl] = "l256"
    /\ threshold = 1
    /\ current_control_vars["az"].pid_output = max_motor_ang
    /\ motor_out["az"] = MaxMotorSteps

\* C6: the saturation stage of every step sets threshold from the azimuth
\* output entering it: 1 exactly when above +max_motor_ang, 2 exactly when
\* below -max_motor_ang, 0 otherwise.
C6_ThresholdRecomputed ==
    [][(pc[Ctl] = "l229" /\ Steps(Ctl)) =>
          LET v == current_control_vars["az"].pid_output
          IN  /\ threshold' = 1 <=> v > max_motor_ang
              /\ threshold' = 2 <=> v < -max_motor_ang
              /\ threshold' = 0 <=> (v <= max_motor_ang /\ v >= -max_motor_ang)]_vars

\* the negative code was recorded with the azimuth output clamped to
\* -max_motor_ang
C6_Witness ==
    /\ pc[Ctl] = "l252"
    /\ threshold = 2
    /\ current_control_vars["az"].pid_output = -max_motor_ang

\* C7: a regime transition that has copied both axes with no other gain
\* operation overlapping it leaves every active gain set equal to the stored
\* set of the regime it selects.
C7_TransitionActivatesStored ==
    \A t \in Cmds :
        (pc[t] = "csm_unlock_alt" /\ clean[t]) =>
            /\ op[t].on_off = 1 => current_pid_values = stab_pid_values
            /\ op[t].on_off = 0 => current_pid_values = track_pid_values

\* a transition to tracking activated stored tracking gains that a persistent
\* update had changed
C7_Witness ==
    \E t \in Cmds :
        /\ pc[t] = "csm_unlock_alt"
        /\ clean[t]
        /\ op[t].on_off = 0
        /\ track_pid_values # TrackDefault
        /\ current_pid_values = track_pid_values

\* the axes a motor id selects
Selected(motor_id) ==
    IF motor_id = 1 THEN {"az"} ELSE IF motor_id = 2 THEN {"alt"} ELSE {}

\* C8: change_pid_values changes only the active gain set of the selected
\* axis; change_mode_pid_values changes only the stored gain set of the
\* selected axis and regime.
C8_GainFrame ==
    [][\A t \in Cmds :
          Steps(t) =>
             LET c == CallOf(t)
             IN  /\ c.fn = "change_pid_values" =>
                       /\ stab_pid_values' = stab_pid_values
                       /\ track_pid_values' = track_pid_values
                       /\ \A a \in Axis \ Selected(c.motor_id) :
                              current_pid_values'[a] = current_pid_values[a]
                 /\ c.fn = "change_mode_pid_values" =>
                       /\ current_pid_values' = current_pid_values
                       /\ \A a \in Axis :
                              (a \notin Selected(c.motor_id) \/ c.mode_id # 1)
                                  => track_pid_values'[a] = track_pid_values[a]
                       /\ \A a \in Axis :
                              (a \notin Selected(c.motor_id) \/ c.mode_id # 2)
                                  => stab_pid_values'[a] = stab_pid_values[a]]_vars

\* a transient override has written the active altitude gains after a
\* persistent update wrote a stored gain set, the active azimuth gains and
\* the other stored sets being as initialised
C8_Witness ==
    \E t \in Cmds :
        /\ pc[t] = "cpv_unlock"
        /\ op[t].motor_id = 2
        /\ current_pid_values["alt"] = op[t].g
        /\ current_pid_values["az"] = TrackDefault["az"]
        /\ stab_pid_values["alt"] \in NewGains
        /\ stab_pid_values["az"] = StabDefault["az"]
        /\ track_pid_values = TrackDefault

\* the call c has an invalid selector
InvalidSelector(c) ==
    \/ c.fn = "change_pid_values" /\ c.motor_id \notin {1, 2}
    \/ c.fn = "change_mode_pid_values" /\ (c.motor_id \notin {1, 2} \/ c.mode_id \notin {1, 2})
    \/ c.fn = "change_stabilization_mode" /\ c.on_off \notin {0, 1}

\* C9: a gain-change call with an invalid selector changes no active and no
\* stored gain set and returns a non-zero status.
C9_InvalidSelectorRejected ==
    [][\A t \in Cmds :
          (Steps(t) /\ InvalidSelector(CallOf(t))) =>
              /\ gains' = gains
              /\ pc'[t] = "idle" => ret'[t] # 0]_vars

\* change_mode_pid_values(2, 3, ...) has returned 1 through its wrong-mode
\* branch
C9_Witness ==
    \E t \in Cmds :
        /\ pc[t] = "idle"
        /\ ret[t] = 1
        /\ pid_values_mutex["alt"] = t
        /\ gains = <<TrackDefault, StabDefault, TrackDefault>>

\* C10 as stated: when pid_reset has released the second control-variable
\* mutex, the integral and the position error of both axes are 0 in the
\* previous-step variables, also next to a running control step.
C10_ResetZeroesBoth ==
    [][\A t \in Cmds :
          (pc[t] = "rst_unlock_alt" /\ Steps(t)) =>
              \A a \in Axis : Zeroed(prev_control_vars'[a])]_vars

\* C10 amended: pid_reset changes no gain set; the integral and the position
\* error of an axis are 0 when pid_reset releases that axis's mutex; and they
\* are 0 on both axes when pid_reset returns, provided no control step stored
\* its results during the call.
C10_ResetZeroesEachAxis ==
    [][\A t \in Cmds :
          (Steps(t) /\ CallOf(t).fn = "pid_reset") =>
              /\ gains' = gains
              /\ \A a \in Axis :
                     pc[t] = "rst_unlock_" \o a =>
                         Zeroed(prev_control_vars'[a]) /\ Zeroed(current_control_vars'[a])
              /\ (pc[t] = "rst_455" /\ clean[t]) =>
                     \A a \in Axis : Zeroed(prev_control_vars'[a])]_vars

\* pid_reset is about to return after a control step had stored a non-zero
\* azimuth integral and output, with no control step storing during the call
C10_Witness ==
    \E t \in Cmds :
        /\ pc[t] = "rst_455"
        /\ clean[t]
        /\ nSteps > 0
        /\ prev_control_vars["az"].pid_output # 0
        /\ \A a \in Axis : Zeroed(prev_control_vars[a])

\* ------------------------------------------------- gyroscope sampling cycle
\* active_m has returned: the sampling cycle is over
CycleEnded == spc[Gyro] = "l129"

\* the transport read of the cycle failed
ReadFailed == ft_ret # "FT_OK"

\* the last two bytes of the datagram are not CR LF
BadTerminator == data[DATAGRAM_SIZE - 2] # CR \/ data[DATAGRAM_SIZE - 1] # LF

Rates(r) == <<r.x, r.y, r.z>>

\* C11: a sampling cycle aborted by a transport read failure or by a
\* terminator mismatch leaves the shared reading as it was when the cycle
\* began: rates, temperature and the out_of_date flag.
C11_AbortKeepsReading ==
    (CycleEnded /\ (ReadFailed \/ BadTerminator)) => reading = reading0

\* a cycle with a wrong terminator has ended with the reading still holding
\* published rates and the out_of_date flag an earlier cycle set
C11_Witness ==
    /\ CycleEnded
    /\ ~ReadFailed
    /\ BadTerminator
    /\ reading.out_of_date = 1
    /\ reading.x # 0

\* C12: a cycle whose datagram has a valid terminator and a non-zero rate
\* status byte sets out_of_date and keeps the rates; whenever out_of_date is
\* 1 the rates are those of the most recent publish.
C12_BadQualityKeepsRates ==
    /\ (CycleEnded /\ ~ReadFailed /\ ~BadTerminator /\ data[10] # 0)
          => (reading.out_of_date = 1 /\ Rates(reading) = Rates(reading0))
    /\ reading.out_of_date = 1 => Rates(reading) = lastGood

\* a bad rate status has flagged a reading that held published rates and
\* was up to date
C12_Witness ==
    /\ CycleEnded
    /\ ~ReadFailed
    /\ ~BadTerminator
    /\ data[10] # 0
    /\ reading0.out_of_date = 0
    /\ reading.out_of_date = 1
    /\ reading.x # 0

\* C13: a cycle whose datagram has a valid terminator, a zero rate status and
\* a non-zero temperature status publishes the three decoded rates with
\* out_of_date cleared and leaves the stored temperature alone.
C13_TemperatureFaultPublishesRates ==
    (CycleEnded /\ ~ReadFailed /\ ~BadTerminator /\ data[10] = 0 /\ data[17] # 0)
        => /\ Rates(reading) =
                 <<DecodeRate(data, 0), DecodeRate(data, 1), DecodeRate(data, 2)>>
           /\ reading.out_of_date = 0
           /\ reading.temp = reading0.temp

\* such a cycle has ended: the rates changed, the flag was cleared, and the
\* datagram's temperature differs from the stored one
C13_Witness ==
    /\ CycleEnded
    /\ ~ReadFailed
    /\ ~BadTerminator
    /\ data[10] = 0
    /\ data[17] # 0
    /\ reading0.out_of_date = 1
    /\ reading.out_of_date = 0
    /\ Rates(reading) # Rates(reading0)
    /\ reading.temp # DecodeTemp(data)

\* ------------------------------------------------------ poller thread states
\* the poller thread is blocked in pthread_cond_wait
Idle == spc[Gyro] = "waiting"

\* C14: once a set_mode(RESET) has completed and for as long as the mode
\* stays RESET, the poller thread starts at most one further sampling cycle,
\* and it comes to block on the start condition.
C14_ResetStopsSampling ==
    /\ [](resetHeld => resetCycles <= 1)
    /\ (resetHeld /\ nCycles < MaxCycles) ~> (Idle \/ ~resetHeld)

\* the thread has run one cycle after the set_mode(RESET) completed and is
\* idle again, the mode still being RESET
C14_Witness == resetHeld /\ resetCycles = 1 /\ Idle /\ nCycles >= 2

\* the poller thread is inside a sampling cycle
InCycle ==
    spc[Gyro] \in {"l150", "l159", "l164", "l169", "l177", "l185", "l193", "l203",
                   "l210", "l223"}

\* C15: the poller thread runs a sampling cycle only after a start signal
\* has woken it from Idle, and a start signal that wakes it with the mode
\* not RESET takes it into the sampling loop.
C15_SamplingOnlyAfterStart ==
    /\ [](InCycle => wokenBy = "signal")
    /\ (spc[Gyro] = "woken" /\ wokenBy = "signal" /\ nCycles < MaxCycles)
          ~> (InCycle \/ mode = "RESET")

\* ------------------------------------------------------------- mode registry
\* C16: the value get_mode reads is the value of the most recent completed
\* set_mode (normal before the first), and get_mode returns that value when
\* no set_mode completed between its read and its return.
C16_GetModeReturnsLastStored ==
    [][\A t \in SensThreads :
          /\ (spc[t] = "gm_read" /\ spc'[t] = "gm_unlock") => ch'[t] = lastStored
          /\ (spc'[t] = "gm_ret" /\ ~overlapped'[t]) => ch'[t] = lastStored']_vars

\* a get_mode is about to return a value that a set_mode stored, and another
\* get_mode was overtaken by a set_mode
C16_Witness ==
    /\ \E t \in ModeCallers :
         spc[t] = "gm_ret" /\ ~overlapped[t] /\ ch[t] = "sleep" /\ lastStored = "sleep"
    /\ overlapped[Gyro]
    /\ spc[Gyro] = "gm_ret"

\* ------------------------------------------------------------ initialisation
\* C17: a log-open failure does not end an initialisation: after one in
\* init_gyroscope_poller the trigger line and the transport are set up and the
\* thread is created (unless another call failed), and after one in init_pid
\* the controller is initialised and the call returns SUCCESS.
C17_LogFailureNotFatal ==
    /\ (bpc = "done" /\ gyro_log = "NULL" /\ gyro_ret # "FAILURE")
          => (trig = "HIGH" /\ fd = "configured" /\ spc[Gyro] # "none")
    /\ (bpc # "init_pid" /\ pid_log = "NULL") => (init_pid /\ pid_ret = "SUCCESS")

\* --------------------------------------------------- the first control step
\* 10 degrees in output units
TenDegrees == 10 * OutPerDeg

\* axis a is in the scenario: first step, kp = 1, ki = 0, kd = 0, target 10,
\* current 0, all stages done
Scenario(a) ==
    /\ StepComputed
    /\ nSteps = 1
    /\ current_pid_values[a] = UnitGain
    /\ current_control_vars[a].target_position = 10 * PosScale
    /\ current_control_vars[a].current_position = 0

\* C18 as stated: in the scenario, if 10 does not exceed max_motor_ang the
\* output is 10 and the emitted step count is lround(step_per_deg * 10).
C18_FirstStepUnclamped ==
    \A a \in Axis :
        (Scenario(a) /\ TenDegrees <= max_motor_ang)
            => /\ current_control_vars[a].pid_output = TenDegrees
               /\ motor_out[a] = StepsOfAngle(TenDegrees, step_per_deg)

\* C18, amended: in the scenario, whenever 10 exceeds max_change_rate the
\* output is max_change_rate and the emitted step count is 5, whether or not
\* 10 exceeds max_motor_ang.
C18_FirstStepRateLimited ==
    \A a \in Axis :
        (Scenario(a) /\ TenDegrees > max_change_rate)
            => /\ current_control_vars[a].pid_output = max_change_rate
               /\ motor_out[a] = MaxChangeSteps

\* the scenario on the azimuth axis with 10 below max_motor_ang: the output
\* is max_change_rate
C18_Witness ==
    /\ Scenario("az")
    /\ TenDegrees <= max_motor_ang
    /\ TenDegrees > max_change_rate
    /\ current_control_vars["az"].pid_output = max_change_rate
    /\ motor_out["az"] = MaxChangeSteps

\* ------------------------------------------------------------------ locking
\* thread t holds a mutex of the core
HoldsMutex(t) ==
    \/ \E a \in Axis : control_vars_mutex[a] = t \/ pid_values_mutex[a] = t
    \/ mutex_mode = t
    \/ mutex_cond_gyro = t

\* C19: pid_update holds no mutex where it fetches the target angles or
\* writes its CSV record, and the poller thread holds none during a sampling
\* cycle.
C19_NoMutexAcrossIO ==
    /\ pc[Ctl] \in ExternalCallAt => ~HoldsMutex(Ctl)
    /\ InCycle => ~HoldsMutex(Gyro)

\* C20: every step of pid_update that reads an axis's active gain set is made
\* with that axis's gain mutex held, and every change of a gain set of an
\* axis is made by a thread that holds that axis's gain mutex.
C20_GainAccessUnderMutex ==
    [][/\ Steps(Ctl) => \A a \in GainsReadAt(pc[Ctl]) : pid_values_mutex[a] = Ctl
       /\ \A a \in Axis :
             (\/ current_pid_values'[a] # current_pid_values[a]
              \/ stab_pid_values'[a] # stab_pid_values[a]
              \/ track_pid_values'[a] # track_pid_values[a])
                => \E t \in Cmds : Steps(t) /\ pid_values_mutex[a] = t]_vars

\* the gain mutexes the next step of thread t unlocks
GainUnlockAt(t) ==
    CASE pc[t] \in {"cpv_unlock", "cmv_unlock"} -> {AxisOf(op[t].motor_id)}
      [] pc[t] = "cmv_wrong_mode" -> {WrongModeUnlockAxis(op[t].motor_id)}
      [] pc[t] = "csm_unlock_az" -> {"az"}
      [] pc[t] = "csm_unlock_alt" -> {"alt"}
      [] OTHER -> {}

\* a step of thread t that returns from a gain operation
GainOpReturns(t) == Steps(t) /\ pc'[t] = "idle" /\ op[t].fn \in GainOps

\* C21: every gain operation releases exactly the mutexes it acquired, on
\* every return path: it unlocks only a gain mutex it holds, and when it
\* returns its thread holds no gain mutex
C21_GainOpsReleaseWhatTheyLocked ==
    [][\A t \in Cmds :
         /\ Steps(t) => \A a \in GainUnlockAt(t) : pid_values_mutex[a] = t
         /\ GainOpReturns(t) => \A a \in Axis : pid_values_mutex'[a] # t]_vars

\* C22: under fair scheduling every invocation of pid_update and of
\* pid_reset returns, whatever the other threads call
C22_UpdateAndResetReturn ==
    /\ InCall(Ctl) ~> ~InCall(Ctl)
    /\ \A t \in Cmds :
          (InCall(t) /\ op[t].fn = "pid_reset") ~> ~InCall(t)

\* the wake time n sample periods after the one captured on entering
\* Active, with the nanosecond part below one second
WakeAfter(n) ==
    LET ns == wake0.tv_nsec + n * GYRO_SAMPLE_TIME
    IN  Timespec(wake0.tv_sec + ns \div NsecPerSec, ns % NsecPerSec)

\* C23: within one Active period the wake deadline after the n-th cycle is
\* the wake time captured on entering Active plus n sample periods, and its
\* nanosecond part stays below 1,000,000,000
C23_DeadlineWithoutDrift ==
    /\ wake_time = WakeAfter(nth)
    /\ wake_time.tv_nsec >= 0
    /\ wake_time.tv_nsec < NsecPerSec

\* a deadline of at least the second cycle, after a carry into the seconds
C23_Witness ==
    /\ spc[Gyro] = "l134"
    /\ nth >= 2
    /\ wake_time.tv_sec = wake0.tv_sec + 1

\* the 3-byte group of channel ii in datagram d
Group(d, ii) == <<d[1 + 3 * ii], d[2 + 3 * ii], d[3 + 3 * ii]>>

\* the two's-complement value of a 24-bit sample, most significant byte first
Value24(g) ==
    LET u == 65536 * g[1] + 256 * g[2] + g[3]
    IN  IF u >= 8388608 THEN u - 16777216 ELSE u

\* the 24-bit two's-complement encoding of v, most significant byte first
Encode24(v) ==
    LET u == IF v < 0 THEN v + 16777216 ELSE v
    IN  <<u \div 65536, (u \div 256) % 256, u % 256>>

\* the rates of the datagram have been decoded
Decoded == spc[Gyro] = "l203"

\* C24: for every channel the decoded integer is the two's-complement value
\* of the 24-bit sample of its three bytes, within -2^23 .. 2^23 - 1, encoding
\* it again gives the same three bytes, and three zero bytes give a rate of 0
C24_DecodeRoundTrip ==
    Decoded =>
        \A ii \in 0 .. 2 :
            /\ rate[ii + 1] = Value24(Group(data, ii))
            /\ rate[ii + 1] \in -8388608 .. 8388607
            /\ Encode24(rate[ii + 1]) = Group(data, ii)
            /\ Group(data, ii) = <<0, 0, 0>> => rate[ii + 1] = 0

\* a negative sample has been decoded
C24_Witness == Decoded /\ \E ii \in 0 .. 2 : rate[ii + 1] < 0
====
